---- MODULE Spec2Model ----
(***************************************************************************)
(* The limit order matcher of experiments/test_matcher.rs: Order,          *)
(* PriceLevel, Matcher::process_order / match_bid / match_ask and the      *)
(* read-only queries best_bid / best_ask.                                   *)
(*                                                                         *)
(* A BTreeMap is a function from its set of keys to PriceLevel records; a  *)
(* VecDeque is a sequence whose head is element 1.  process_order is       *)
(* followed statement by statement: pc is the position inside the call,    *)
(* and "idle" is the state between two calls, the only one a caller sees.  *)
(***************************************************************************)
EXTENDS Integers, Sequences, FiniteSets, TLC

\* Bounds of the explored input space.
MaxOrders == 3
MaxPrice == 3
MaxQty == 2
\* The width given to u64 where the whole range of a field is explored.
U64Bits == 2

VARIABLES
    bids,              \* Matcher.bids : BTreeMap<Reverse<u64>, PriceLevel>
    asks,              \* Matcher.asks : BTreeMap<u64, PriceLevel>
    fills,             \* Matcher.fills : Vec<Fill>
    orders_processed,  \* Matcher.orders_processed
    total_fills,       \* Matcher.total_fills
    total_volume,      \* Matcher.total_volume
    pc,                \* position inside process_order
    order,             \* the incoming order (process_order's `mut order`)
    ask_price,         \* match_bid's local ask_price
    bid_price,         \* match_ask's local bid_price
    submitted,         \* history: the orders handed to process_order, in call order
    bids0,             \* history: bids at the entry of the current / last call
    asks0,             \* history: asks at the entry of the current / last call
    returned,          \* history: the slice each process_order call returned
    result             \* the caller's side: what its last query returned

vars == <<bids, asks, fills, orders_processed, total_fills, total_volume,
          pc, order, ask_price, bid_price, submitted, bids0, asks0,
          returned, result>>

\* The fields of the Matcher.
matcher == <<bids, asks, fills, orders_processed, total_fills, total_volume>>

Sides == {"Bid", "Ask"}

\* Option<u64>
None == <<>>
Some(x) == <<x>>

\* The value of `order` while no call is running.
NoOrder == [id |-> 0, price |-> 0, quantity |-> 0, filled |-> 0,
            timestamp |-> 0, side |-> "None"]

\* No query has returned since the last process_order call.
NoResult == [call |-> "none", value |-> None]

\* BTreeMap::new()
EmptyMap == [k \in {} |-> 0]

----------------------------------------------------------------------------
\* Order

OrderNew(id, price, quantity, side, timestamp) ==
    [id |-> id, price |-> price, quantity |-> quantity, filled |-> 0,
     timestamp |-> timestamp, side |-> side]

remaining(o) == o.quantity - o.filled

----------------------------------------------------------------------------
\* PriceLevel

PriceLevelNew(price) == [price |-> price, total_qty |-> 0, orders |-> <<>>]

\* Faulty variant of add: the queue is kept in timestamp order.
add_by_timestamp(level, o) ==
    LET q == level.orders
        n == Cardinality({ i \in 1..Len(q) : q[i].timestamp <= o.timestamp })
    IN  [level EXCEPT !.total_qty = @ + remaining(o),
                      !.orders = SubSeq(q, 1, n) \o <<o>> \o SubSeq(q, n + 1, Len(q))]

\* Faulty variant of add: `total_qty += order.quantity`.
add_quantity(level, o) ==
    [level EXCEPT !.total_qty = @ + o.quantity, !.orders = Append(@, o)]

\* Faulty variant of add: push_front instead of push_back.
add_front(level, o) ==
    [level EXCEPT !.total_qty = @ + remaining(o), !.orders = <<o>> \o @]

add(level, o) ==
    [level EXCEPT !.total_qty = @ + remaining(o), !.orders = Append(@, o)]

\* Faulty variant of front_mut: the back of the queue.
back_mut(level) == Len(level.orders)

\* The index of the order front_mut() hands out.
front_mut(level) == 1

\* Faulty variant of pop_front: the popped order's quantity leaves total_qty.
pop_front_adjusting(level) ==
    IF level.orders = <<>> THEN level
    ELSE [level EXCEPT !.total_qty = @ - Head(level.orders).quantity,
                       !.orders = Tail(@)]

\* `self.orders.pop_front()`
pop_front(level) ==
    IF level.orders = <<>> THEN level
    ELSE [level EXCEPT !.orders = Tail(@)]

is_empty(level) == level.orders = <<>>

----------------------------------------------------------------------------
\* BTreeMap operations used by the Matcher

\* Faulty variant of first_ask_key: asks keyed like bids, largest price first.
first_ask_key_reversed(m) == CHOOSE k \in DOMAIN m : \A j \in DOMAIN m : k >= j

\* asks.first_entry(): the smallest u64 key.
first_ask_key(m) == CHOOSE k \in DOMAIN m : \A j \in DOMAIN m : k <= j

\* Faulty variant of first_bid_key: the `Reverse` of the key is forgotten.
first_bid_key_unreversed(m) == CHOOSE k \in DOMAIN m : \A x \in DOMAIN m : k <= x

\* bids.first_entry(): the smallest Reverse<u64> key, the largest price.
first_bid_key(m) == CHOOSE k \in DOMAIN m : \A j \in DOMAIN m : k >= j

\* map.remove(&key)
remove(m, key) == [k \in DOMAIN m \ {key} |-> m[k]]

\* map.entry(price).or_insert_with(|| PriceLevel::new(price))
or_insert(m, price) ==
    [k \in DOMAIN m \cup {price} |->
        IF k \in DOMAIN m THEN m[k] ELSE PriceLevelNew(price)]

----------------------------------------------------------------------------
\* The statements of the matching loops

\* Faulty variant of bid_stops: the crossing test is missing.
bid_stops_never(key, o) == FALSE

\* Faulty variants of the crossing tests: equal prices do not trade.
bid_stops_on_equal(key, o) == key >= o.price
ask_stops_on_equal(key, o) == key <= o.price

\* `if *entry.key() > order.price { break; }`
bid_stops(key, o) == key > o.price

\* `if entry.key().0 < order.price { break; }`
ask_stops(key, o) == key < o.price

\* Faulty variant of fill_qty: one unit per fill.
fill_qty_unit(o, maker) == 1

\* Faulty variant of fill_qty: max instead of min.
fill_qty_max(o, maker) ==
    IF remaining(o) >= remaining(maker) THEN remaining(o) ELSE remaining(maker)

\* `order.remaining().min(maker.remaining())`
fill_qty(o, maker) ==
    IF remaining(o) <= remaining(maker) THEN remaining(o) ELSE remaining(maker)

\* Faulty variant of NewFill: the fill is priced at the incoming order's price.
NewFill_taker_price(maker, o, qty) ==
    [maker_id |-> maker.id, taker_id |-> o.id, price |-> o.price,
     quantity |-> qty]

\* `Fill { maker_id, taker_id: order.id, price: maker_price, quantity: fill_qty }`
NewFill(maker, o, qty) ==
    [maker_id |-> maker.id, taker_id |-> o.id, price |-> maker.price,
     quantity |-> qty]

\* Faulty variant of fill_maker: `maker.quantity -= fill_qty`.
fill_maker_quantity(level, qty) ==
    [level EXCEPT !.orders[1].quantity = @ - qty]

\* Faulty variant of fill_maker: `maker.filled = fill_qty`.
fill_maker_assign(level, qty) ==
    [level EXCEPT !.orders[1].filled = qty]

\* `maker.filled += fill_qty` on the head of the level
fill_maker(level, qty) ==
    [level EXCEPT !.orders[front_mut(level)].filled = @ + qty]

\* Faulty variant of fill_taker: the incoming order's filled is not updated.
fill_taker_missing(o, qty) == o

\* `order.filled += fill_qty`
fill_taker(o, qty) == [o EXCEPT !.filled = @ + qty]

\* Faulty variant of dec_total: the decrement is missing.
dec_total_missing(level, qty) == level

\* `level.total_qty -= fill_qty`
dec_total(level, qty) == [level EXCEPT !.total_qty = @ - qty]

\* Faulty variant of pop_if_done: the head is popped after every fill.
pop_always(level) == pop_front(level)

\* Faulty variant of pop_if_done: a filled maker stays at the head.
pop_never(level) == level

\* `let maker_done = maker.remaining() == 0; ... if maker_done { level.pop_front(); }`
pop_if_done(level) ==
    IF remaining(level.orders[front_mut(level)]) = 0 THEN pop_front(level)
    ELSE level

\* One iteration of the inner loop on `level`: the level afterwards.
match_head(level, o) ==
    LET qty == fill_qty(o, level.orders[front_mut(level)])
    IN  pop_if_done(dec_total(fill_maker(level, qty), qty))

\* Faulty variant of add_volume: the fill is counted, not its quantity.
add_volume_one(volume, qty) == volume + 1

\* `self.total_volume += fill_qty`
add_volume(volume, qty) == volume + qty

\* Faulty variant of remove_if_empty: the emptied level stays in the map.
remove_missing(m, key) == m

\* `if level.is_empty() { map.remove(&price); }`
remove_if_empty(m, key) == IF is_empty(m[key]) THEN remove(m, key) ELSE m

\* Faulty variant of add_remainder: `insert` of a new level, whatever is there.
add_remainder_overwrite(m, o) ==
    IF remaining(o) > 0
    THEN [k \in DOMAIN m \cup {o.price} |->
             IF k = o.price THEN add(PriceLevelNew(o.price), o) ELSE m[k]]
    ELSE m

\* Faulty variant of add_remainder: the order rests whatever its remainder.
add_always(m, o) == [or_insert(m, o.price) EXCEPT ![o.price] = add(@, o)]

\* `if order.remaining() > 0 { map.entry(order.price).or_insert_with(..).add(order.clone()); }`
add_remainder(m, o) ==
    IF remaining(o) > 0
    THEN [or_insert(m, o.price) EXCEPT ![o.price] = add(@, o)]
    ELSE m

----------------------------------------------------------------------------
\* Matcher

Init ==
    /\ bids = EmptyMap
    /\ asks = EmptyMap
    /\ fills = <<>>
    /\ orders_processed = 0
    /\ total_fills = 0
    /\ total_volume = 0
    /\ pc = "idle"
    /\ order = NoOrder
    /\ ask_price = 0
    /\ bid_price = 0
    /\ submitted = <<>>
    /\ bids0 = EmptyMap
    /\ asks0 = EmptyMap
    /\ returned = <<>>
    /\ result = NoResult

\* The caller's orders: Order::new(i, price, qty, side, i) with a fresh id and
\* the submission sequence number as timestamp, as main() builds them.
Incoming ==
    { OrderNew(Len(submitted) + 1, p, q, s, Len(submitted) + 1) :
        p \in 1..MaxPrice, q \in 1..MaxQty, s \in Sides }

\* Faulty variant of clear: the buffer keeps the fills of earlier calls.
clear_missing(buffer) == buffer

\* `self.fills.clear()`
clear(buffer) == <<>>

\* Faulty variant of count_order: the counter is left alone.
count_order_missing(n) == n

\* `self.orders_processed += 1`
count_order(n) == n + 1

\* process_order(o), up to the dispatch on order.side
submit(o) ==
    /\ pc = "idle"
    /\ Len(submitted) < MaxOrders
    /\ order' = o
    /\ submitted' = Append(submitted, o)
    /\ pc' = IF o.side = "Bid" THEN "bid_outer" ELSE "ask_outer"
    /\ fills' = clear(fills)
    /\ orders_processed' = count_order(orders_processed)
    /\ bids0' = bids
    /\ asks0' = asks
    /\ result' = NoResult
    /\ UNCHANGED <<bids, asks, total_fills, total_volume, ask_price, bid_price,
                   returned>>

\* process_order on a well-formed order
process_order == \E o \in Incoming : submit(o)

\* match_bid: the head of the outer loop
match_bid_outer ==
    /\ pc = "bid_outer"
    /\ IF /\ remaining(order) > 0
          /\ DOMAIN asks # {}
          /\ ~bid_stops(first_ask_key(asks), order)
       THEN /\ ask_price' = first_ask_key(asks)
            /\ pc' = "bid_inner"
       ELSE /\ ask_price' = ask_price
            /\ pc' = "bid_rest"
    /\ UNCHANGED <<bids, asks, fills, orders_processed, total_fills,
                   total_volume, order, bid_price, submitted, bids0, asks0,
                   returned, result>>

\* match_bid: one iteration of the inner loop
match_bid_fill ==
    /\ pc = "bid_inner"
    /\ remaining(order) > 0 /\ ~is_empty(asks[ask_price])
    /\ LET level == asks[ask_price]
           maker == level.orders[front_mut(level)]
           qty   == fill_qty(order, maker)
       IN  /\ asks' = [asks EXCEPT ![ask_price] = match_head(level, order)]
           /\ order' = fill_taker(order, qty)
           /\ fills' = Append(fills, NewFill(maker, order, qty))
           /\ total_fills' = total_fills + 1
           /\ total_volume' = add_volume(total_volume, qty)
    /\ UNCHANGED <<bids, orders_processed, pc, ask_price, bid_price,
                   submitted, bids0, asks0,
                   returned, result>>

\* match_bid: the inner loop ends, an emptied level is removed
match_bid_level_done ==
    /\ pc = "bid_inner"
    /\ ~(remaining(order) > 0 /\ ~is_empty(asks[ask_price]))
    /\ asks' = remove_if_empty(asks, ask_price)
    /\ pc' = "bid_outer"
    /\ UNCHANGED <<bids, fills, orders_processed, total_fills, total_volume,
                   order, ask_price, bid_price, submitted, bids0, asks0,
                   returned, result>>

\* match_bid: the remainder rests, process_order returns &self.fills
match_bid_rest ==
    /\ pc = "bid_rest"
    /\ bids' = add_remainder(bids, order)
    /\ pc' = "idle"
    /\ returned' = Append(returned, fills)
    /\ order' = NoOrder
    /\ ask_price' = 0
    /\ UNCHANGED <<asks, fills, orders_processed, total_fills, total_volume,
                   bid_price, submitted, bids0, asks0, result>>

\* match_ask: the head of the outer loop
match_ask_outer ==
    /\ pc = "ask_outer"
    /\ IF /\ remaining(order) > 0
          /\ DOMAIN bids # {}
          /\ ~ask_stops(first_bid_key(bids), order)
       THEN /\ bid_price' = first_bid_key(bids)
            /\ pc' = "ask_inner"
       ELSE /\ bid_price' = bid_price
            /\ pc' = "ask_rest"
    /\ UNCHANGED <<bids, asks, fills, orders_processed, total_fills,
                   total_volume, order, ask_price, submitted, bids0, asks0,
                   returned, result>>

\* match_ask: one iteration of the inner loop
match_ask_fill ==
    /\ pc = "ask_inner"
    /\ remaining(order) > 0 /\ ~is_empty(bids[bid_price])
    /\ LET level == bids[bid_price]
           maker == level.orders[front_mut(level)]
           qty   == fill_qty(order, maker)
       IN  /\ bids' = [bids EXCEPT ![bid_price] = match_head(level, order)]
           /\ order' = fill_taker(order, qty)
           /\ fills' = Append(fills, NewFill(maker, order, qty))
           /\ total_fills' = total_fills + 1
           /\ total_volume' = add_volume(total_volume, qty)
    /\ UNCHANGED <<asks, orders_processed, pc, ask_price, bid_price,
                   submitted, bids0, asks0,
                   returned, result>>

\* match_ask: the inner loop ends, an emptied level is removed
match_ask_level_done ==
    /\ pc = "ask_inner"
    /\ ~(remaining(order) > 0 /\ ~is_empty(bids[bid_price]))
    /\ bids' = remove_if_empty(bids, bid_price)
    /\ pc' = "ask_outer"
    /\ UNCHANGED <<asks, fills, orders_processed, total_fills, total_volume,
                   order, ask_price, bid_price, submitted, bids0, asks0,
                   returned, result>>

\* Faulty variant of match_ask_rest: the remainder is inserted into bids.
match_ask_rest_into_bids ==
    /\ pc = "ask_rest"
    /\ bids' = add_remainder(bids, order)
    /\ pc' = "idle"
    /\ returned' = Append(returned, fills)
    /\ order' = NoOrder
    /\ bid_price' = 0
    /\ UNCHANGED <<asks, fills, orders_processed, total_fills, total_volume,
                   ask_price, submitted, bids0, asks0, result>>

\* match_ask: the remainder rests, process_order returns &self.fills
match_ask_rest ==
    /\ pc = "ask_rest"
    /\ asks' = add_remainder(asks, order)
    /\ pc' = "idle"
    /\ returned' = Append(returned, fills)
    /\ order' = NoOrder
    /\ bid_price' = 0
    /\ UNCHANGED <<bids, fills, orders_processed, total_fills, total_volume,
                   ask_price, submitted, bids0, asks0, result>>

\* Faulty variant of best_bid: the last key instead of the first.
best_bid_last == IF DOMAIN bids = {} THEN None ELSE Some(first_ask_key(bids))

\* Matcher::best_bid / best_ask: read-only, the first key of each side
best_bid == IF DOMAIN bids = {} THEN None ELSE Some(first_bid_key(bids))

\* Faulty variant of best_ask: the last key instead of the first.
best_ask_last == IF DOMAIN asks = {} THEN None ELSE Some(first_bid_key(asks))

best_ask == IF DOMAIN asks = {} THEN None ELSE Some(first_ask_key(asks))

\* Faulty variant of stats: the level counts are swapped.
stats_swapped ==
    [orders_processed |-> orders_processed, total_fills |-> total_fills,
     total_volume |-> total_volume, bid_levels |-> Cardinality(DOMAIN asks),
     ask_levels |-> Cardinality(DOMAIN bids)]

\* Matcher::stats: the MatcherStats it builds
stats ==
    [orders_processed |-> orders_processed, total_fills |-> total_fills,
     total_volume |-> total_volume, bid_levels |-> Cardinality(DOMAIN bids),
     ask_levels |-> Cardinality(DOMAIN asks)]

\* The caller reads best_bid() between two process_order calls.
call_best_bid ==
    /\ pc = "idle"
    /\ result' = [call |-> "best_bid", value |-> best_bid]
    /\ UNCHANGED <<matcher, pc, order, ask_price, bid_price, submitted,
                   bids0, asks0, returned>>

\* The caller reads best_ask() between two process_order calls.
call_best_ask ==
    /\ pc = "idle"
    /\ result' = [call |-> "best_ask", value |-> best_ask]
    /\ UNCHANGED <<matcher, pc, order, ask_price, bid_price, submitted,
                   bids0, asks0, returned>>

\* Faulty variant of call_stats: stats() is read while a call is running.
call_stats_unguarded ==
    /\ result' = [call |-> "stats", value |-> stats]
    /\ UNCHANGED <<matcher, pc, order, ask_price, bid_price, submitted,
                   bids0, asks0, returned>>

\* The caller reads stats() between two process_order calls.
call_stats ==
    /\ pc = "idle"
    /\ result' = [call |-> "stats", value |-> stats]
    /\ UNCHANGED <<matcher, pc, order, ask_price, bid_price, submitted,
                   bids0, asks0, returned>>

Next ==
    \/ process_order
    \/ match_bid_outer
    \/ match_bid_fill
    \/ match_bid_level_done
    \/ match_bid_rest
    \/ match_ask_outer
    \/ match_ask_fill
    \/ match_ask_level_done
    \/ match_ask_rest
    \/ call_best_bid
    \/ call_best_ask
    \/ call_stats

Spec == Init /\ [][Next]_vars

----------------------------------------------------------------------------
\* The matcher fed with orders at the prices and sizes of a worked example:
\* tick prices 100 and 101, sizes 4 and 10.

ExampleIncoming ==
    { OrderNew(Len(submitted) + 1, p, q, s, Len(submitted) + 1) :
        p \in {100, 101}, q \in {4, 10}, s \in Sides }

process_order_example == \E o \in ExampleIncoming : submit(o)

NextExample ==
    \/ process_order_example
    \/ match_bid_outer
    \/ match_bid_fill
    \/ match_bid_level_done
    \/ match_bid_rest
    \/ match_ask_outer
    \/ match_ask_fill
    \/ match_ask_level_done
    \/ match_ask_rest

SpecExample == Init /\ [][NextExample]_vars

----------------------------------------------------------------------------
\* The matcher fed with orders whose quantity the caller did not validate:
\* Order::new accepts quantity 0.

AnyQtyIncoming ==
    { OrderNew(Len(submitted) + 1, p, q, s, Len(submitted) + 1) :
        p \in 1..MaxPrice, q \in 0..MaxQty, s \in Sides }

process_order_any_qty == \E o \in AnyQtyIncoming : submit(o)

NextAnyQty ==
    \/ process_order_any_qty
    \/ match_bid_outer
    \/ match_bid_fill
    \/ match_bid_level_done
    \/ match_bid_rest
    \/ match_ask_outer
    \/ match_ask_fill
    \/ match_ask_level_done
    \/ match_ask_rest

SpecAnyQty == Init /\ [][NextAnyQty]_vars

----------------------------------------------------------------------------
\* The matcher fed with orders whose id the caller did not keep unique: the
\* id is fresh or that of the order resting longest in the book.  The price
\* range is one tick shorter than for well-formed orders.

IdsIn(m) ==
    UNION { { m[k].orders[i].id : i \in 1..Len(m[k].orders) } : k \in DOMAIN m }

RestingIds == IdsIn(bids) \cup IdsIn(asks)

ReusedIds ==
    { i \in RestingIds : \A j \in RestingIds : i <= j }

AnyIdIncoming ==
    { OrderNew(i, p, q, s, Len(submitted) + 1) :
        i \in {Len(submitted) + 1} \cup ReusedIds,
        p \in 1..(MaxPrice - 1), q \in 1..MaxQty, s \in Sides }

\* Faulty variant of process_order_any_id: an order whose id rests in the
\* book is turned away, with an empty slice.
process_order_unique_id ==
    \E o \in AnyIdIncoming :
        IF o.id \in RestingIds
        THEN /\ pc = "idle"
             /\ Len(submitted) < MaxOrders
             /\ submitted' = Append(submitted, o)
             /\ fills' = <<>>
             /\ orders_processed' = orders_processed + 1
             /\ returned' = Append(returned, <<>>)
             /\ bids0' = bids
             /\ asks0' = asks
             /\ result' = NoResult
             /\ UNCHANGED <<bids, asks, total_fills, total_volume, pc, order,
                            ask_price, bid_price>>
        ELSE submit(o)

process_order_any_id == \E o \in AnyIdIncoming : submit(o)

NextAnyId ==
    \/ process_order_any_id
    \/ match_bid_outer
    \/ match_bid_fill
    \/ match_bid_level_done
    \/ match_bid_rest
    \/ match_ask_outer
    \/ match_ask_fill
    \/ match_ask_level_done
    \/ match_ask_rest

SpecAnyId == Init /\ [][NextAnyId]_vars

----------------------------------------------------------------------------
\* The matcher fed with well-formed orders whose quantity ranges over all
\* of u64, u64 being U64Bits wide.  The variables hold the exact sums.  A
\* build without overflow checks stores them modulo 2^U64Bits and, as no
\* branch reads total_qty or total_volume, goes on as the exact sums do; a
\* build with overflow checks panics at its first `+=` whose sum exceeds
\* U64_MAX.

U64_MAX == 2^U64Bits - 1

U64Incoming ==
    { OrderNew(Len(submitted) + 1, p, q, s, Len(submitted) + 1) :
        p \in 1..MaxPrice, q \in 1..U64_MAX, s \in Sides }

process_order_u64 == \E o \in U64Incoming : submit(o)

\* Every sum stored so far fits u64.
InRange ==
    /\ total_volume <= U64_MAX
    /\ \A k \in DOMAIN bids : bids[k].total_qty <= U64_MAX
    /\ \A k \in DOMAIN asks : asks[k].total_qty <= U64_MAX

\* `self.total_qty += order.remaining()` in add() is about to exceed U64_MAX.
total_qty_overflows ==
    \/ /\ pc = "bid_rest"
       /\ remaining(order) > 0
       /\ order.price \in DOMAIN bids
       /\ bids[order.price].total_qty + remaining(order) > U64_MAX
    \/ /\ pc = "ask_rest"
       /\ remaining(order) > 0
       /\ order.price \in DOMAIN asks
       /\ asks[order.price].total_qty + remaining(order) > U64_MAX

\* `self.total_volume += fill_qty` is about to exceed U64_MAX.
total_volume_overflows ==
    \/ /\ pc = "bid_inner"
       /\ remaining(order) > 0 /\ ~is_empty(asks[ask_price])
       /\ total_volume + fill_qty(order, asks[ask_price].orders[1]) > U64_MAX
    \/ /\ pc = "ask_inner"
       /\ remaining(order) > 0 /\ ~is_empty(bids[bid_price])
       /\ total_volume + fill_qty(order, bids[bid_price].orders[1]) > U64_MAX

\* The build with overflow checks: 'attempt to add with overflow'.
overflow_panic ==
    /\ InRange
    /\ total_qty_overflows \/ total_volume_overflows
    /\ pc' = "panic"
    /\ UNCHANGED <<matcher, order, ask_price, bid_price, submitted, bids0,
                   asks0, returned, result>>

NextU64 ==
    \/ process_order_u64
    \/ match_bid_outer
    \/ match_bid_fill
    \/ match_bid_level_done
    \/ match_bid_rest
    \/ match_ask_outer
    \/ match_ask_fill
    \/ match_ask_level_done
    \/ match_ask_rest
    \/ overflow_panic

SpecU64 == Init /\ [][NextU64]_vars

----------------------------------------------------------------------------
\* The matcher fed with orders whose timestamp is any value the caller
\* likes: equal, growing or falling from one submission to the next.  The
\* price range is one tick shorter than for well-formed orders and the
\* quantity is the smallest or the largest.

AnyTimestampIncoming ==
    { OrderNew(Len(submitted) + 1, p, q, s, t) :
        p \in 1..(MaxPrice - 1), q \in {1, MaxQty}, s \in Sides, t \in 0..1 }

process_order_any_timestamp == \E o \in AnyTimestampIncoming : submit(o)

NextAnyTimestamp ==
    \/ process_order_any_timestamp
    \/ match_bid_outer
    \/ match_bid_fill
    \/ match_bid_level_done
    \/ match_bid_rest
    \/ match_ask_outer
    \/ match_ask_fill
    \/ match_ask_level_done
    \/ match_ask_rest

SpecAnyTimestamp == Init /\ [][NextAnyTimestamp]_vars

----------------------------------------------------------------------------
\* Vocabulary of the properties

\* The orders resting on a side, as the records stored in its queues.
Resting(m) ==
    UNION { { m[k].orders[i] : i \in 1..Len(m[k].orders) } : k \in DOMAIN m }

RECURSIVE SumRemaining(_)
SumRemaining(q) ==
    IF q = <<>> THEN 0 ELSE remaining(Head(q)) + SumRemaining(Tail(q))

RECURSIVE SumQuantity(_)
SumQuantity(fs) ==
    IF fs = <<>> THEN 0 ELSE Head(fs).quantity + SumQuantity(Tail(fs))

RECURSIVE SumOver(_, _)
SumOver(m, keys) ==
    IF keys = {} THEN 0
    ELSE LET k == CHOOSE x \in keys : TRUE
         IN  SumRemaining(m[k].orders) + SumOver(m, keys \ {k})

Min(a, b) == IF a <= b THEN a ELSE b

\* The order of the running call, or of the last one, as it was submitted.
Taker == submitted[Len(submitted)]

\* The position of the process_order call that submitted the order `id`.
Arrival(id) == CHOOSE i \in 1..Len(submitted) : submitted[i].id = id

Returned == pc = "idle" /\ submitted # <<>>

InCall == pc # "idle"

\* A step that emits a fill, and the fill it emits.
EmitsFill == Len(fills') = Len(fills) + 1
LastFill == fills'[Len(fills')]

\* The side an incoming order matches against, and the side it rests on.
Opposite(o, b, a) == IF o.side = "Bid" THEN a ELSE b
Own(o, b, a) == IF o.side = "Bid" THEN b ELSE a

\* The resting quantity an incoming order may trade with.
Crossable(o, b, a) ==
    IF o.side = "Bid"
    THEN SumOver(a, { k \in DOMAIN a : k <= o.price })
    ELSE SumOver(b, { k \in DOMAIN b : k >= o.price })

----------------------------------------------------------------------------
\* C1: no crossed book. Whenever process_order has returned and both
\* best_bid() and best_ask() are present, best_bid() < best_ask() strictly.
C1_NoCrossedBook ==
    pc = "idle" =>
        (best_bid # None /\ best_ask # None => best_bid[1] < best_ask[1])

\* A call has traded and left a two-sided book.
C1_Witness ==
    /\ Returned
    /\ fills # <<>>
    /\ best_bid # None
    /\ best_ask # None

\* C2: no over-fill. In every state, also between the fills of one call,
\* every resting order and the incoming order have 0 <= filled <= quantity.
C2_NoOverFill ==
    \A o \in Resting(bids) \cup Resting(asks) \cup
             (IF InCall THEN {order} ELSE {}) :
        0 <= o.filled /\ o.filled <= o.quantity

\* Inside a call, after a fill that left its maker partially filled.
C2_Witness ==
    /\ pc \in {"bid_inner", "ask_inner"}
    /\ order.filled > 0
    /\ \E o \in Resting(bids) \cup Resting(asks) :
          0 < o.filled /\ o.filled < o.quantity

\* C3: price priority. The maker of every fill rests at the best price of
\* the side opposite to the incoming order: no order on that side rests at
\* a strictly better price when the fill happens.
C3_PricePriority ==
    [][ EmitsFill =>
          \E mk \in Resting(Opposite(order, bids, asks)) :
             /\ mk.id = LastFill.maker_id
             /\ \A r \in Resting(Opposite(order, bids, asks)) :
                   IF order.side = "Bid" THEN mk.price <= r.price
                   ELSE mk.price >= r.price ]_vars

\* A maker was filled while an order that arrived before it still rests on
\* the same side at a worse price.
C3_Witness ==
    /\ pc \in {"bid_inner", "ask_inner"}
    /\ fills # <<>>
    /\ \E r \in Resting(Opposite(order, bids, asks)) :
          /\ r.price # fills[1].price
          /\ Arrival(r.id) < Arrival(fills[1].maker_id)

\* C4: time priority. The maker of every fill is the oldest-arrived order
\* resting at its price, and while an order A rests in a level no order B
\* of that level that was submitted after A is filled or removed.
C4_TimePriority ==
    [][ /\ EmitsFill =>
             \E mk \in Resting(Opposite(order, bids, asks)) :
                /\ mk.id = LastFill.maker_id
                /\ \A r \in Resting(Opposite(order, bids, asks)) :
                      r.price = mk.price => Arrival(mk.id) <= Arrival(r.id)
        /\ \A a \in Resting(bids) \cup Resting(asks) :
           \A b \in Resting(bids) \cup Resting(asks) :
              ( /\ a.side = b.side
                /\ a.price = b.price
                /\ Arrival(a.id) < Arrival(b.id) )
              => b \in Resting(bids') \cup Resting(asks') ]_vars

\* Two orders rested at one price; the earlier one was filled and removed,
\* and only then the later one was filled.
C4_Witness ==
    /\ Len(fills) >= 2
    /\ fills[1].price = fills[2].price
    /\ Arrival(fills[1].maker_id) < Arrival(fills[2].maker_id)

\* C5: every fill's price is the price of its maker; for an incoming Bid it
\* is at most the Bid's limit, for an incoming Ask at least the Ask's limit.
C5_FillAtMakerPrice ==
    \A i \in 1..Len(fills) :
        /\ fills[i].price = submitted[Arrival(fills[i].maker_id)].price
        /\ Taker.side = "Bid" => fills[i].price <= Taker.price
        /\ Taker.side = "Ask" => fills[i].price >= Taker.price

\* A fill at a price other than the incoming order's.
C5_Witness ==
    \E i \in 1..Len(fills) : fills[i].price # Taker.price

\* C6: crossable liquidity is consumed before a remainder rests. The fills
\* a call returns sum to min(order.quantity, quantity resting on the
\* opposite side at crossable prices before the call).
C6_CrossableConsumed ==
    Returned =>
        SumQuantity(fills) = Min(Taker.quantity, Crossable(Taker, bids0, asks0))

\* The crossable quantity was smaller than the order, which rests, and the
\* opposite side keeps the liquidity it could not cross.
C6_Witness ==
    /\ Returned
    /\ fills # <<>>
    /\ SumQuantity(fills) < Taker.quantity
    /\ DOMAIN Opposite(Taker, bids, asks) # {}

\* C7: conservation per submission. Each fill adds exactly its quantity to
\* the maker's filled and to the incoming order's filled; the fills of one
\* call never sum to more than the order's quantity; what rests afterwards
\* is the quantity minus that sum, and nothing rests when the sum is the
\* whole quantity.
C7_Conservation ==
    /\ [](submitted # <<>> => SumQuantity(fills) <= Taker.quantity)
    /\ [](Returned =>
            /\ \A r \in Resting(bids) \cup Resting(asks) :
                  r.id = Taker.id =>
                      remaining(r) = Taker.quantity - SumQuantity(fills)
            /\ (\E r \in Resting(Own(Taker, bids, asks)) : r.id = Taker.id)
                  <=> SumQuantity(fills) < Taker.quantity)
    /\ [][ EmitsFill =>
             /\ order'.filled = order.filled + LastFill.quantity
             /\ \E mk \in Resting(Opposite(order, bids, asks)) :
                   /\ mk.id = LastFill.maker_id
                   /\ \/ [mk EXCEPT !.filled = @ + LastFill.quantity]
                            \in Resting(Opposite(order, bids', asks'))
                      \/ /\ mk.filled + LastFill.quantity = mk.quantity
                         /\ \A r \in Resting(bids') \cup Resting(asks') :
                               r.id # mk.id ]_vars

\* An order traded part of its quantity against a maker that had already
\* been partially filled by an earlier call, and rests with the remainder.
C7_Witness ==
    /\ Returned
    /\ fills # <<>>
    /\ \E mk \in Resting(bids0) \cup Resting(asks0) :
          mk.id = fills[1].maker_id /\ mk.filled > 0
    /\ \E r \in Resting(bids) \cup Resting(asks) :
          r.id = Taker.id /\ r.filled > 0

\* C8: cached aggregate. Between process_order calls every level's
\* total_qty is the sum of remaining() over the orders in its queue.
C8_TotalQtyIsSum ==
    pc = "idle" =>
        /\ \A k \in DOMAIN bids : bids[k].total_qty = SumRemaining(bids[k].orders)
        /\ \A k \in DOMAIN asks : asks[k].total_qty = SumRemaining(asks[k].orders)

\* A level of two orders whose head is partially filled.
C8_Witness ==
    /\ pc = "idle"
    /\ \E m \in {bids, asks} : \E k \in DOMAIN m :
          /\ Len(m[k].orders) >= 2
          /\ m[k].orders[1].filled > 0

\* C9: level cleanup. After process_order returns no level has an empty
\* queue or zero resting quantity, and every resting order has
\* remaining() > 0.
C9_LevelCleanup ==
    pc = "idle" =>
        \A m \in {bids, asks} : \A k \in DOMAIN m :
            /\ m[k].orders # <<>>
            /\ m[k].total_qty > 0
            /\ \A i \in 1..Len(m[k].orders) : remaining(m[k].orders[i]) > 0

\* The call emptied a level, which is gone, while another level of that
\* side is still there.
C9_Witness ==
    /\ Returned
    /\ \E k \in DOMAIN Opposite(Taker, bids0, asks0) :
          k \notin DOMAIN Opposite(Taker, bids, asks)
    /\ DOMAIN Opposite(Taker, bids, asks) # {}

\* The step in which the remainder is handled and process_order returns.
RestStep == pc \in {"bid_rest", "ask_rest"} /\ pc' = "idle"

\* C10: the remainder rests. An incoming order with remaining() > 0 after
\* matching is appended, with its accumulated filled, to the tail of the
\* level at its price on its own side (created if absent) and nothing else
\* of the book changes; one with remaining() = 0 is not inserted.
C10_RemainderRests ==
    [][ RestStep =>
          LET own  == Own(order, bids, asks)
              own2 == Own(order, bids', asks')
              old  == IF order.price \in DOMAIN own
                      THEN own[order.price].orders ELSE <<>>
          IN  /\ Opposite(order, bids', asks') = Opposite(order, bids, asks)
              /\ IF order.quantity - order.filled > 0
                 THEN /\ DOMAIN own2 = DOMAIN own \cup {order.price}
                      /\ own2[order.price].orders = Append(old, order)
                      /\ own2[order.price].price = order.price
                      /\ \A k \in DOMAIN own \ {order.price} : own2[k] = own[k]
                 ELSE /\ own2 = own
                      /\ \A r \in Resting(bids') \cup Resting(asks') :
                            r.id # order.id ]_vars

\* The order was appended behind an order already resting at its price.
C10_Witness ==
    /\ Returned
    /\ \E k \in DOMAIN Own(Taker, bids, asks) :
          LET q == Own(Taker, bids, asks)[k].orders
          IN  Len(q) >= 2 /\ q[Len(q)].id = Taker.id

----------------------------------------------------------------------------
\* Vocabulary of the properties on the returned slices and the queries

RECURSIVE CountFills(_)
CountFills(slices) ==
    IF slices = <<>> THEN 0 ELSE Len(Head(slices)) + CountFills(Tail(slices))

RECURSIVE SumVolume(_)
SumVolume(slices) ==
    IF slices = <<>> THEN 0
    ELSE SumQuantity(Head(slices)) + SumVolume(Tail(slices))

\* The step that enters process_order, and a step inside the call.
EntryStep == pc = "idle" /\ pc' # "idle"
BestStep == result' # result /\ result'.call \in {"best_bid", "best_ask"}
StatsStep == result' # result /\ result'.call = "stats"

\* The head of the level the inner loop is working on.
HeadMaker ==
    IF pc = "bid_inner" THEN asks[ask_price].orders[1]
    ELSE bids[bid_price].orders[1]

\* The inner loop is about to run its body.
BodyRuns ==
    \/ pc = "bid_inner" /\ remaining(order) > 0 /\ asks[ask_price].orders # <<>>
    \/ pc = "ask_inner" /\ remaining(order) > 0 /\ bids[bid_price].orders # <<>>

\* C11: the slice process_order returns holds exactly the fills of that
\* call, in the order they were made, each with the submitted order's id as
\* taker_id: the buffer is emptied when the call starts, whether or not it
\* goes on to fill, and then only grows by the fill of each iteration.
C11_ReturnedSlice ==
    /\ [](\A i \in 1..Len(fills) : fills[i].taker_id = Taker.id)
    /\ [][ /\ EntryStep => fills' = <<>>
           /\ (InCall /\ total_fills' = total_fills) => fills' = fills
           /\ (InCall /\ total_fills' # total_fills) =>
                 /\ BodyRuns
                 /\ fills' = Append(fills, LastFill)
                 /\ LastFill.taker_id = order.id
                 /\ LastFill.maker_id = HeadMaker.id
           /\ (pc = "idle" /\ pc' = "idle") => fills' = fills
           /\ (InCall /\ pc' = "idle") => returned' = Append(returned, fills) ]_vars

\* A call that made no fill returned an empty slice right after a call
\* that had returned fills.
C11_Witness ==
    /\ Returned
    /\ Len(returned) >= 2
    /\ fills = <<>>
    /\ returned[Len(returned) - 1] # <<>>

\* C12: best_bid() is the highest price of the bid levels, best_ask() the
\* lowest price of the ask levels, None exactly when the side has no
\* level; neither changes the Matcher.
C12_BestPrices ==
    /\ [](result.call = "best_bid" =>
            IF DOMAIN bids = {} THEN result.value = None
            ELSE /\ result.value # None
                 /\ \E k \in DOMAIN bids : bids[k].price = result.value[1]
                 /\ \A k \in DOMAIN bids : bids[k].price <= result.value[1])
    /\ [](result.call = "best_ask" =>
            IF DOMAIN asks = {} THEN result.value = None
            ELSE /\ result.value # None
                 /\ \E k \in DOMAIN asks : asks[k].price = result.value[1]
                 /\ \A k \in DOMAIN asks : asks[k].price >= result.value[1])
    /\ [][BestStep => UNCHANGED <<matcher, pc>>]_vars

\* best_ask() was read on a side of several levels.
C12_Witness ==
    /\ result.call = "best_ask"
    /\ Cardinality(DOMAIN asks) >= 2

\* C13: stats() changes nothing, a second stats() with no process_order in
\* between returns the same values, and bid_levels / ask_levels are the
\* numbers of distinct prices at which orders rest on each side.
C13_StatsReadOnly ==
    /\ [](result.call = "stats" =>
            /\ result.value = stats
            /\ result.value.orders_processed = orders_processed
            /\ result.value.total_fills = total_fills
            /\ result.value.total_volume = total_volume
            /\ result.value.bid_levels =
                  Cardinality({ o.price : o \in Resting(bids) })
            /\ result.value.ask_levels =
                  Cardinality({ o.price : o \in Resting(asks) }))
    /\ [][StatsStep => UNCHANGED <<matcher, pc>>]_vars

\* stats() was read after a trade on a book whose sides differ in levels.
C13_Witness ==
    /\ result.call = "stats"
    /\ total_fills > 0
    /\ result.value.bid_levels # result.value.ask_levels

\* C15: orders_processed grows by exactly 1 with every process_order call,
\* whatever the order does, so it is the number of calls made; it never
\* decreases.
C15_OrdersProcessed ==
    /\ [](orders_processed = Len(submitted))
    /\ [][ /\ EntryStep => orders_processed' = orders_processed + 1
           /\ ~EntryStep => orders_processed' = orders_processed ]_vars

\* Calls were counted of which one traded and one did not.
C15_Witness ==
    /\ Returned
    /\ orders_processed >= 2
    /\ \E i \in 1..Len(returned) : returned[i] = <<>>
    /\ \E i \in 1..Len(returned) : returned[i] # <<>>

\* C16: total_fills is the number of Fill records returned over all calls
\* and total_volume the sum of their quantities; neither ever decreases,
\* and a call that returns no fill leaves both as they were.
C16_CumulativeTotals ==
    /\ [](pc = "idle" =>
            /\ total_fills = CountFills(returned)
            /\ total_volume = SumVolume(returned))
    /\ [][ /\ total_fills' >= total_fills
           /\ total_volume' >= total_volume ]_vars

\* A call has returned no fill and two later calls have returned fills.
C16_Witness ==
    /\ pc = "idle"
    /\ returned # <<>>
    /\ returned[1] = <<>>
    /\ \E i \in 1..Len(returned) : \E j \in 1..Len(returned) :
          /\ i < j
          /\ returned[i] # <<>>
          /\ returned[j] # <<>>

\* C17: every fill has quantity > 0: whenever the body of the inner loop
\* runs, the incoming order and the maker at the head both have
\* remaining() > 0.
C17_PositiveFill ==
    /\ \A i \in 1..Len(fills) : fills[i].quantity > 0
    /\ BodyRuns => remaining(order) > 0 /\ remaining(HeadMaker) > 0

\* The body is about to run again after a fill of this call.
C17_Witness ==
    /\ BodyRuns
    /\ fills # <<>>

----------------------------------------------------------------------------
\* The three orders of the example scenario.
Ask1 == OrderNew(1, 100, 10, "Ask", 1)
Bid2 == OrderNew(2, 100, 4, "Bid", 2)
Bid3 == OrderNew(3, 101, 10, "Bid", 3)

\* C14: the example scenario. On an empty Matcher Ask(1, 100, 10) makes no
\* fill and leaves ask level 100 with total_qty 10; Bid(2, 100, 4) then
\* returns the one fill (maker 1, taker 2, price 100, qty 4) and level 100
\* has total_qty 6; Bid(3, 101, 10) then returns the one fill (maker 1,
\* taker 3, price 100, qty 6), level 100 is removed and order 3 rests at
\* bid 101 with remaining 4: best_ask() is None, best_bid() is Some(101)
\* and that level's total_qty is 4.
C14_Scenario ==
    /\ (pc = "idle" /\ submitted = <<Ask1>>) =>
          /\ fills = <<>>
          /\ DOMAIN bids = {}
          /\ DOMAIN asks = {100}
          /\ asks[100].total_qty = 10
          /\ asks[100].orders = <<Ask1>>
    /\ (pc = "idle" /\ submitted = <<Ask1, Bid2>>) =>
          /\ fills = <<[maker_id |-> 1, taker_id |-> 2, price |-> 100,
                        quantity |-> 4]>>
          /\ DOMAIN bids = {}
          /\ DOMAIN asks = {100}
          /\ asks[100].total_qty = 6
          /\ asks[100].orders = <<[Ask1 EXCEPT !.filled = 4]>>
    /\ (pc = "idle" /\ submitted = <<Ask1, Bid2, Bid3>>) =>
          /\ fills = <<[maker_id |-> 1, taker_id |-> 3, price |-> 100,
                        quantity |-> 6]>>
          /\ DOMAIN asks = {}
          /\ DOMAIN bids = {101}
          /\ bids[101].orders = <<[Bid3 EXCEPT !.filled = 6]>>
          /\ remaining(bids[101].orders[1]) = 4
          /\ bids[101].total_qty = 4
          /\ best_ask = None
          /\ best_bid = Some(101)

\* The third call of the scenario has returned.
C14_Witness ==
    /\ pc = "idle"
    /\ submitted = <<Ask1, Bid2, Bid3>>

----------------------------------------------------------------------------
\* C18 as stated: an order of quantity 0 that reaches process_order makes
\* no fill and rests in the book with zero size, so that a level of zero
\* resting quantity is present on its side.
C18_ZeroQtyRests ==
    (Returned /\ Taker.quantity = 0) =>
        /\ fills = <<>>
        /\ Taker.price \in DOMAIN Own(Taker, bids, asks)
        /\ \E r \in Resting(Own(Taker, bids, asks)) :
              r.id = Taker.id /\ remaining(r) = 0

\* C18 as the code has it: an order of quantity 0 that reaches
\* process_order makes no fill and is not inserted; both sides of the book
\* are left as they were, so no level of zero resting quantity appears.
C18_ZeroQtyDropped ==
    (Returned /\ Taker.quantity = 0) =>
        /\ fills = <<>>
        /\ bids = bids0
        /\ asks = asks0
        /\ \A r \in Resting(bids) \cup Resting(asks) :
              r.id # Taker.id /\ remaining(r) > 0

\* An order of quantity 0 has been processed whose price crossed resting
\* liquidity and at whose price nothing rested on its own side.
C18_Witness ==
    /\ Returned
    /\ Taker.quantity = 0
    /\ Crossable(Taker, bids0, asks0) > 0
    /\ Taker.price \notin DOMAIN Own(Taker, bids0, asks0)

----------------------------------------------------------------------------
\* What an order does to a book, told without the ids: the makers it meets,
\* best price first and oldest first within a price, give it what they have
\* until it is filled.

\* The orders of the levels `keys` of a side, in the priority in which an
\* incoming order of side `s` meets them.
RECURSIVE InPriority(_, _, _)
InPriority(m, keys, s) ==
    IF keys = {} THEN <<>>
    ELSE LET k == CHOOSE x \in keys :
                     \A y \in keys : IF s = "Bid" THEN x <= y ELSE x >= y
         IN  m[k].orders \o InPriority(m, keys \ {k}, s)

Anonymous(q) == [i \in 1..Len(q) |-> [q[i] EXCEPT !.id = 0]]

CrossKeys(o, m) ==
    { k \in DOMAIN m : IF o.side = "Bid" THEN k <= o.price ELSE k >= o.price }

\* The (price, quantity) of the fills n units make against the makers q.
RECURSIVE ExpectedFills(_, _)
ExpectedFills(q, n) ==
    IF q = <<>> \/ n = 0 THEN <<>>
    ELSE LET t == Min(n, remaining(Head(q)))
         IN  <<[price |-> Head(q).price, quantity |-> t]>>
                 \o ExpectedFills(Tail(q), n - t)

\* The makers q after n units have traded against them.
RECURSIVE ExpectedMakers(_, _)
ExpectedMakers(q, n) ==
    IF q = <<>> \/ n = 0 THEN q
    ELSE IF remaining(Head(q)) <= n
         THEN ExpectedMakers(Tail(q), n - remaining(Head(q)))
         ELSE <<[Head(q) EXCEPT !.filled = @ + n]>> \o Tail(q)

\* C19: duplicate ids are not detected. An order whose id is that of a
\* resting order is processed as any order is: its fills have the prices
\* and quantities, and the book afterwards the shape, that its price,
\* quantity and side alone determine; its remainder rests, so that two
\* resting orders can carry one id.
C19_DuplicateIdUndetected ==
    Returned =>
        LET opp0  == Opposite(Taker, bids0, asks0)
            opp   == Opposite(Taker, bids, asks)
            own0  == Own(Taker, bids0, asks0)
            own   == Own(Taker, bids, asks)
            cross == InPriority(opp0, CrossKeys(Taker, opp0), Taker.side)
            far   == InPriority(opp0, DOMAIN opp0 \ CrossKeys(Taker, opp0),
                                Taker.side)
            after == InPriority(opp, DOMAIN opp, Taker.side)
            left  == Taker.quantity - SumQuantity(fills)
            old   == IF Taker.price \in DOMAIN own0
                     THEN own0[Taker.price].orders ELSE <<>>
        IN  /\ [i \in 1..Len(fills) |->
                   [price |-> fills[i].price, quantity |-> fills[i].quantity]]
                  = ExpectedFills(cross, Taker.quantity)
            /\ Anonymous(after)
                  = Anonymous(ExpectedMakers(cross, Taker.quantity) \o far)
            /\ DOMAIN opp = { after[i].price : i \in 1..Len(after) }
            /\ \A k \in DOMAIN opp :
                  opp[k].total_qty = SumRemaining(opp[k].orders)
            /\ IF left > 0
               THEN /\ DOMAIN own = DOMAIN own0 \cup {Taker.price}
                    /\ own[Taker.price].orders =
                          Append(old, [Taker EXCEPT !.filled = @ + SumQuantity(fills)])
                    /\ own[Taker.price].total_qty =
                          SumRemaining(own[Taker.price].orders)
                    /\ \A k \in DOMAIN own0 \ {Taker.price} : own[k] = own0[k]
               ELSE own = own0

\* An order with the id of a resting order traded against another maker
\* and rests: the book holds two orders of one id.
C19_Witness ==
    /\ Returned
    /\ fills # <<>>
    /\ Taker.id \in IdsIn(bids0) \cup IdsIn(asks0)
    /\ \E a \in Resting(bids) \cup Resting(asks) :
       \E b \in Resting(bids) \cup Resting(asks) :
          a.id = b.id /\ a.timestamp # b.timestamp

----------------------------------------------------------------------------
\* C20: no panic on well-formed input. For well-formed orders with u64
\* fields no addition of process_order leaves the u64 range: neither
\* `total_qty += order.remaining()` nor `total_volume += fill_qty` yields
\* more than U64_MAX, and the call does not panic.
C20_NoOverflow ==
    /\ pc # "panic"
    /\ total_volume <= U64_MAX
    /\ \A k \in DOMAIN bids : bids[k].total_qty <= U64_MAX
    /\ \A k \in DOMAIN asks : asks[k].total_qty <= U64_MAX

----------------------------------------------------------------------------
\* The order `r` of side `m` rests, after the step, in the queue of the
\* level at its price on the same side.
StaysIn(r, m) ==
    /\ r.price \in DOMAIN m
    /\ \E i \in 1..Len(m[r.price].orders) : m[r.price].orders[i].id = r.id

\* The step is the fill that completes the maker `r`, which leaves the book.
FilledAway(r) ==
    /\ EmitsFill
    /\ LastFill.maker_id = r.id
    /\ r.filled + LastFill.quantity = r.quantity
    /\ r.id \notin IdsIn(bids') \cup IdsIn(asks')

\* C21: resting-order lifecycle. Once an order rests it stays in the queue
\* of the level at its price on its side until a fill brings its
\* remaining() to 0, and it leaves the book with that fill; nothing else
\* removes or moves a resting order.
C21_RestingLifecycle ==
    [][ /\ \A r \in Resting(bids) :
              \/ StaysIn(r, bids') /\ ~FilledAway(r)
              \/ FilledAway(r) /\ ~StaysIn(r, bids')
        /\ \A r \in Resting(asks) :
              \/ StaysIn(r, asks') /\ ~FilledAway(r)
              \/ FilledAway(r) /\ ~StaysIn(r, asks') ]_vars

\* An order that was partially filled by an earlier call and still rested
\* when this call began has been filled and is gone.
C21_Witness ==
    /\ Returned
    /\ \E r \in Resting(bids0) \cup Resting(asks0) :
          r.filled > 0 /\ r.id \notin RestingIds

\* Timestamps grow from the head to the tail of the queue.
Ascending(q) ==
    \A i \in 1..Len(q) : \A j \in 1..Len(q) :
        i < j => q[i].timestamp < q[j].timestamp

\* C22: timestamp-ordered FIFO. With timestamps that grow from one
\* submission to the next, every queue is in strictly increasing timestamp
\* order from head to tail in every state, and the maker of every fill has
\* the smallest timestamp of the orders resting at its price.
C22_TimestampOrder ==
    /\ [](\A i \in 1..Len(submitted) : \A j \in 1..Len(submitted) :
             i < j => submitted[i].timestamp < submitted[j].timestamp)
    /\ [](\A m \in {bids, asks} : \A k \in DOMAIN m : Ascending(m[k].orders))
    /\ [][ EmitsFill =>
             \E mk \in Resting(Opposite(order, bids, asks)) :
                /\ mk.id = LastFill.maker_id
                /\ \A r \in Resting(Opposite(order, bids, asks)) :
                      r.price = mk.price => mk.timestamp <= r.timestamp ]_vars

\* The last fill of the call left its maker at the head of a queue that
\* holds a younger order behind it.
C22_Witness ==
    /\ Returned
    /\ fills # <<>>
    /\ \E k \in DOMAIN Opposite(Taker, bids, asks) :
          LET q == Opposite(Taker, bids, asks)[k].orders
          IN  /\ Len(q) >= 2
              /\ q[1].id = fills[Len(fills)].maker_id

----------------------------------------------------------------------------
\* The price `k` of an opposite level crosses the incoming order `o`.
Crosses(k, o) == IF o.side = "Bid" THEN k <= o.price ELSE k >= o.price

\* The best key of the opposite side of `o`.
OppositeBest(o, b, a) ==
    IF o.side = "Bid" THEN first_ask_key(a) ELSE first_bid_key(b)

\* C23: the crossing test is inclusive. With quantity left, the incoming
\* order goes on to match the best opposite level exactly when that level's
\* price is <= a Bid's price or >= an Ask's price, so equal prices trade and
\* every fill is at a crossing price; an order that does not cross the
\* opposite best, or finds the opposite side empty, returns no fills, leaves
\* the opposite side as it was and rests with its full quantity.
C23_InclusiveCrossing ==
    /\ [][ /\ pc \in {"bid_outer", "ask_outer"} /\ remaining(order) > 0
              /\ DOMAIN Opposite(order, bids, asks) # {}
              => (pc' \in {"bid_inner", "ask_inner"}
                    <=> Crosses(OppositeBest(order, bids, asks), order))
           /\ EmitsFill => Crosses(LastFill.price, order) ]_vars
    /\ [](Returned =>
            LET opp0 == Opposite(Taker, bids0, asks0)
                own  == Own(Taker, bids, asks)
            IN  /\ fills # <<>> <=>
                      /\ DOMAIN opp0 # {}
                      /\ Crosses(OppositeBest(Taker, bids0, asks0), Taker)
                /\ fills = <<>> =>
                      /\ Opposite(Taker, bids, asks) = opp0
                      /\ Taker.price \in DOMAIN own
                      /\ LET q == own[Taker.price].orders
                         IN  q[Len(q)] = Taker /\ remaining(q[Len(q)]) = Taker.quantity)

\* An order has traded at a price equal to its own, after an earlier order
\* came back without fills.
C23_Witness ==
    /\ Returned
    /\ fills # <<>>
    /\ fills[1].price = Taker.price
    /\ \E i \in 2..Len(returned) : returned[i] = <<>>

\* What a submission fixes for good.
Identity(o) ==
    [id |-> o.id, price |-> o.price, quantity |-> o.quantity,
     side |-> o.side, timestamp |-> o.timestamp]

\* C24: immutable identity of resting orders. Across the calls a resting
\* order keeps the id, price, quantity, side and timestamp it was submitted
\* with, and its filled never decreases.
C24_ImmutableIdentity ==
    /\ [](\A r \in Resting(bids) \cup Resting(asks) :
             Identity(r) = Identity(submitted[Arrival(r.id)]))
    /\ [][ \A r \in Resting(bids) \cup Resting(asks) :
             \A r2 \in Resting(bids') \cup Resting(asks') :
                r2.id = r.id =>
                   Identity(r2) = Identity(r) /\ r2.filled >= r.filled ]_vars

\* An order that rested when the call began rests still, with more filled.
C24_Witness ==
    /\ Returned
    /\ \E r \in Resting(bids0) \cup Resting(asks0) :
          \E r2 \in Resting(bids) \cup Resting(asks) :
             r2.id = r.id /\ r2.filled > r.filled

\* The level under key `k` of a side holds orders of that price and side.
LevelAt(m, k, side) ==
    /\ m[k].price = k
    /\ \A i \in 1..Len(m[k].orders) :
          m[k].orders[i].price = k /\ m[k].orders[i].side = side

\* C25: level/key consistency. In every state the level under each key of
\* either side has that key as its price, every order in its queue has
\* that price, the orders of bid levels are Bids and those of ask levels
\* are Asks; a level appears only when a remainder rests at a price that
\* has no level on its side.
C25_LevelKeyConsistency ==
    /\ [](/\ \A k \in DOMAIN bids : LevelAt(bids, k, "Bid")
          /\ \A k \in DOMAIN asks : LevelAt(asks, k, "Ask"))
    /\ [][ /\ DOMAIN bids' \ DOMAIN bids # {} =>
                /\ RestStep /\ order.side = "Bid" /\ remaining(order) > 0
                /\ DOMAIN bids' \ DOMAIN bids = {order.price}
                /\ asks' = asks
           /\ DOMAIN asks' \ DOMAIN asks # {} =>
                /\ RestStep /\ order.side = "Ask" /\ remaining(order) > 0
                /\ DOMAIN asks' \ DOMAIN asks = {order.price}
                /\ bids' = bids ]_vars

\* Levels at two prices on the bid side and one on the ask side, the
\* youngest created by the call that just returned.
C25_Witness ==
    /\ Returned
    /\ Cardinality(DOMAIN bids) >= 2
    /\ DOMAIN asks # {}
    /\ DOMAIN asks # DOMAIN asks0

----------------------------------------------------------------------------
\* The number of orders resting on a side.
RECURSIVE CountOver(_, _)
CountOver(m, keys) ==
    IF keys = {} THEN 0
    ELSE LET k == CHOOSE x \in keys : TRUE
         IN  Len(m[k].orders) + CountOver(m, keys \ {k})

CountOrders(m) == CountOver(m, DOMAIN m)

\* What is left to do in a call: the quantity the incoming order still
\* wants and the makers it may still meet, refined by the position in the
\* loops. It is 0 when no call is running.
Variant ==
    LET work == remaining(order) + CountOrders(Opposite(order, bids, asks))
    IN  CASE pc = "idle" -> 0
          [] pc \in {"bid_outer", "ask_outer"} -> 3 * work + 2
          [] pc \in {"bid_rest", "ask_rest"} -> 3 * work + 1
          [] BodyRuns -> 3 * work + 1
          [] OTHER -> 3 * work + 3

\* C26: process_order terminates. Every step of a call decreases a
\* non-negative measure of the work left; each iteration of the inner loop
\* brings the incoming order's remaining() to 0 or takes one maker out of
\* the book, so a call makes at most as many fills as there were orders
\* resting on the opposite side when it began.
C26_Terminates ==
    /\ [](Variant >= 0)
    /\ [][ InCall => Variant' < Variant ]_vars
    /\ [][ EmitsFill =>
             \/ remaining(order') = 0
             \/ CountOrders(Opposite(order, bids', asks'))
                   = CountOrders(Opposite(order, bids, asks)) - 1 ]_vars
    /\ [](submitted # <<>> =>
             Len(fills) <= CountOrders(Opposite(Taker, bids0, asks0)))

\* A call has consumed every order of the opposite side, two or more, with
\* one fill each.
C26_Witness ==
    /\ Returned
    /\ Len(fills) >= 2
    /\ Len(fills) = CountOrders(Opposite(Taker, bids0, asks0))

----------------------------------------------------------------------------
\* A whole call as a function of the book and the incoming order

\* The inner loop (lines 106-131, 157-182) run to its end on `level`.
RECURSIVE match_level(_, _, _)
match_level(level, o, fs) ==
    IF remaining(o) > 0 /\ ~is_empty(level)
    THEN LET maker == level.orders[front_mut(level)]
             qty   == fill_qty(o, maker)
         IN  match_level(match_head(level, o), fill_taker(o, qty),
                         Append(fs, NewFill(maker, o, qty)))
    ELSE [level |-> level, order |-> o, fills |-> fs]

\* The outer loop of match_bid run to its end on the ask side `a`.
RECURSIVE match_bid_loop(_, _, _)
match_bid_loop(a, o, fs) ==
    IF /\ remaining(o) > 0
       /\ DOMAIN a # {}
       /\ ~bid_stops(first_ask_key(a), o)
    THEN LET key == first_ask_key(a)
             r   == match_level(a[key], o, fs)
         IN  match_bid_loop(remove_if_empty([a EXCEPT ![key] = r.level], key),
                            r.order, r.fills)
    ELSE [book |-> a, order |-> o, fills |-> fs]

\* The outer loop of match_ask run to its end on the bid side `b`.
RECURSIVE match_ask_loop(_, _, _)
match_ask_loop(b, o, fs) ==
    IF /\ remaining(o) > 0
       /\ DOMAIN b # {}
       /\ ~ask_stops(first_bid_key(b), o)
    THEN LET key == first_bid_key(b)
             r   == match_level(b[key], o, fs)
         IN  match_ask_loop(remove_if_empty([b EXCEPT ![key] = r.level], key),
                            r.order, r.fills)
    ELSE [book |-> b, order |-> o, fills |-> fs]

\* match_bid and match_ask: the book and the fills after the call.
match_bid(b, a, o) ==
    LET r == match_bid_loop(a, o, <<>>)
    IN  [bids |-> add_remainder(b, r.order), asks |-> r.book, fills |-> r.fills]

match_ask(b, a, o) ==
    LET r == match_ask_loop(b, o, <<>>)
    IN  [bids |-> r.book, asks |-> add_remainder(a, r.order), fills |-> r.fills]

match(b, a, o) ==
    IF o.side = "Bid" THEN match_bid(b, a, o) ELSE match_ask(b, a, o)

\* The reflection p -> K - p of the prices, with K above every price, and
\* the exchange of the sides.
K == MaxPrice + 1

MirrorOrder(o) ==
    [o EXCEPT !.price = K - @,
              !.side = IF @ = "Bid" THEN "Ask" ELSE "Bid"]

MirrorLevel(level) ==
    [price |-> K - level.price, total_qty |-> level.total_qty,
     orders |-> [i \in 1..Len(level.orders) |-> MirrorOrder(level.orders[i])]]

MirrorMap(m) ==
    [k \in { K - p : p \in DOMAIN m } |-> MirrorLevel(m[K - k])]

MirrorFills(fs) == [i \in 1..Len(fs) |-> [fs[i] EXCEPT !.price = K - @]]

\* C27: Bid/Ask mirror symmetry. Whenever a call has returned, the book and
\* the fills are those match_bid or match_ask gives for the book at entry
\* and the submitted order, and the other of the two functions, given the
\* mirrored book at entry (sides exchanged, prices reflected) and the
\* mirrored order, gives the mirrored book and the same fills with
\* reflected prices. The empty book is its own mirror, so by induction on
\* the calls a mirrored sequence of submissions yields the mirrored fills
\* per call and the mirrored book.
C27_MirrorSymmetry ==
    Returned =>
        /\ match(bids0, asks0, Taker)
              = [bids |-> bids, asks |-> asks, fills |-> fills]
        /\ match(MirrorMap(asks0), MirrorMap(bids0), MirrorOrder(Taker))
              = [bids |-> MirrorMap(asks), asks |-> MirrorMap(bids),
                 fills |-> MirrorFills(fills)]

\* An Ask has traded with the best bid, rests with its remainder, and a
\* bid below it rests still.
C27_Witness ==
    /\ Returned
    /\ Taker.side = "Ask"
    /\ fills # <<>>
    /\ Taker.id \in IdsIn(asks)
    /\ DOMAIN bids # {}

----------------------------------------------------------------------------
\* The calls made so far, run one after the other in the order they were
\* admitted, on a new Matcher.
RECURSIVE Sequential(_)
Sequential(n) ==
    IF n = 0 THEN [bids |-> EmptyMap, asks |-> EmptyMap, fills |-> <<>>]
    ELSE LET before == Sequential(n - 1)
         IN  match(before.bids, before.asks, submitted[n])

\* No call is running: no incoming order is half matched, no level has an
\* empty queue and no resting order is filled.
Quiescent ==
    /\ pc = "idle"
    /\ order = NoOrder
    /\ \A m \in {bids, asks} : \A k \in DOMAIN m : ~is_empty(m[k])
    /\ \A r \in Resting(bids) \cup Resting(asks) : remaining(r) > 0

----------------------------------------------------------------------------
\* The sum of total_qty over the levels of a side.
RECURSIVE SumTotalQty(_, _)
SumTotalQty(m, keys) ==
    IF keys = {} THEN 0
    ELSE LET k == CHOOSE x \in keys : TRUE
         IN  m[k].total_qty + SumTotalQty(m, keys \ {k})

\* C29: global quantity conservation. The original quantities of all the
\* orders submitted to a new Matcher add up to 2 * total_volume plus the
\* total_qty of all levels of both sides, plus, while a call is running,
\* what remains of the incoming order; between calls nothing remains.
C29_GlobalConservation ==
    /\ SumQuantity(submitted)
          = 2 * total_volume + SumTotalQty(bids, DOMAIN bids)
              + SumTotalQty(asks, DOMAIN asks) + remaining(order)
    /\ pc = "idle" => remaining(order) = 0

\* Three orders are in: some quantity has traded, some rests on each side.
C29_Witness ==
    /\ pc = "idle"
    /\ Len(submitted) >= 3
    /\ total_volume > 0
    /\ SumTotalQty(bids, DOMAIN bids) > 0
    /\ SumTotalQty(asks, DOMAIN asks) > 0

\* C30: only heads are partially filled. Between calls every resting order
\* behind the head of its queue has filled = 0, so at most one order of a
\* level, its head, has filled > 0.
C30_OnlyHeadsPartial ==
    pc = "idle" =>
        \A m \in {bids, asks} : \A k \in DOMAIN m :
            /\ \A i \in 2..Len(m[k].orders) : m[k].orders[i].filled = 0
            /\ Cardinality({ i \in 1..Len(m[k].orders) :
                               m[k].orders[i].filled > 0 }) <= 1

\* The call that just returned left a partially filled head with an
\* untouched order behind it.
C30_Witness ==
    /\ Returned
    /\ fills # <<>>
    /\ \E m \in {bids, asks} : \E k \in DOMAIN m :
          /\ Len(m[k].orders) >= 2
          /\ m[k].orders[1].filled > 0
          /\ m[k].orders[1].id = fills[Len(fills)].maker_id

----------------------------------------------------------------------------
\* The order of the last call rests in the book.
TakerRests == Taker.id \in IdsIn(Own(Taker, bids, asks))

\* C31: a partially filled taker becomes the new best. When a call has
\* returned fills and its order rests, no level existed at the order's
\* price on its own side before the call, the level made for it holds that
\* order alone, and its price is the best of its side: best_bid() for a
\* Bid, best_ask() for an Ask.
C31_PartialTakerIsBest ==
    Returned /\ fills # <<>> /\ TakerRests =>
        LET own == Own(Taker, bids, asks)
        IN  /\ Taker.price \notin DOMAIN Own(Taker, bids0, asks0)
            /\ Taker.price \in DOMAIN own
            /\ Len(own[Taker.price].orders) = 1
            /\ own[Taker.price].orders[1].id = Taker.id
            /\ own[Taker.price].orders[1].filled > 0
            /\ IF Taker.side = "Bid" THEN best_bid = Some(Taker.price)
               ELSE best_ask = Some(Taker.price)

\* A partially filled Bid rests above a bid level that was there before.
C31_Witness ==
    /\ Returned
    /\ fills # <<>>
    /\ TakerRests
    /\ Taker.side = "Bid"
    /\ bids0 # EmptyMap

\* The maker of a fill as it rested when the call began.
MakerAtEntry(f) ==
    CHOOSE r \in Resting(Opposite(Taker, bids0, asks0)) : r.id = f.maker_id

\* C32: shape of a call's fill list. In the fills of one call, finished or
\* running, every fill but the last took all that remained of its maker,
\* which is gone from the book; the prices never get better for the taker
\* (non-decreasing for a Bid, non-increasing for an Ask); no maker_id
\* occurs twice.
C32_FillListShape ==
    submitted # <<>> =>
        /\ \A i \in 1..Len(fills) :
              \E r \in Resting(Opposite(Taker, bids0, asks0)) :
                  r.id = fills[i].maker_id
        /\ \A i \in 1..(Len(fills) - 1) :
              /\ fills[i].quantity = remaining(MakerAtEntry(fills[i]))
              /\ fills[i].maker_id \notin RestingIds
        /\ \A i \in 1..Len(fills) : \A j \in 1..Len(fills) :
              i < j =>
                 /\ fills[i].maker_id # fills[j].maker_id
                 /\ IF Taker.side = "Bid" THEN fills[i].price <= fills[j].price
                    ELSE fills[i].price >= fills[j].price

\* Two fills at two prices, the last of which left its maker resting.
C32_Witness ==
    /\ Returned
    /\ Len(fills) >= 2
    /\ fills[1].price # fills[2].price
    /\ fills[Len(fills)].maker_id \in RestingIds

\* The side `m` is the side `m0` with nothing changed but, perhaps, the
\* order `id` appended at the tail of the level at `price`.
OnlyAppended(m, m0, id, price) ==
    /\ DOMAIN m0 \subseteq DOMAIN m
    /\ DOMAIN m \ DOMAIN m0 \subseteq {price}
    /\ \A k \in DOMAIN m0 : k # price => m[k] = m0[k]
    /\ price \in DOMAIN m =>
          LET before == IF price \in DOMAIN m0 THEN m0[price]
                        ELSE PriceLevelNew(price)
          IN  \/ m[price] = before /\ price \in DOMAIN m0
              \/ /\ m[price].price = price
                 /\ Len(m[price].orders) = Len(before.orders) + 1
                 /\ SubSeq(m[price].orders, 1, Len(before.orders)) = before.orders
                 /\ m[price].orders[Len(m[price].orders)].id = id

\* C33: own-side frame. A call for a Bid changes, removes or reorders no
\* resting bid and no bid level: all it may do on the bid side is append
\* its remainder at the tail of the level at its price, and it leaves
\* every ask level priced above the Bid's price as it was; symmetrically
\* for an Ask.
C33_OwnSideFrame ==
    submitted # <<>> =>
        /\ OnlyAppended(Own(Taker, bids, asks), Own(Taker, bids0, asks0),
                        Taker.id, Taker.price)
        /\ InCall => Own(Taker, bids, asks) = Own(Taker, bids0, asks0)
        /\ \A k \in DOMAIN Opposite(Taker, bids0, asks0) :
              ~Crosses(k, Taker) =>
                 /\ k \in DOMAIN Opposite(Taker, bids, asks)
                 /\ Opposite(Taker, bids, asks)[k]
                       = Opposite(Taker, bids0, asks0)[k]

\* A Bid has joined the tail of a bid level that was there, under an ask
\* level priced above it.
C33_Witness ==
    /\ Returned
    /\ Taker.side = "Bid"
    /\ Taker.price \in DOMAIN bids0
    /\ TakerRests
    /\ \E k \in DOMAIN asks0 : k > Taker.price

----------------------------------------------------------------------------
\* An order, a side and a sequence of orders with every timestamp set to 0.
Retime(o) == [o EXCEPT !.timestamp = 0]

RetimeMap(m) ==
    [k \in DOMAIN m |->
        [price |-> m[k].price, total_qty |-> m[k].total_qty,
         orders |-> [i \in 1..Len(m[k].orders) |-> Retime(m[k].orders[i])]]]

RetimeAll(seq) == [i \in 1..Len(seq) |-> Retime(seq[i])]

\* The book and the last fills after the calls for the orders of `seq`, in
\* that order, on a new Matcher.
RECURSIVE Replay(_)
Replay(seq) ==
    IF seq = <<>> THEN [bids |-> EmptyMap, asks |-> EmptyMap, fills |-> <<>>]
    ELSE LET before == Replay(SubSeq(seq, 1, Len(seq) - 1))
         IN  match(before.bids, before.asks, seq[Len(seq)])

\* C34: timestamp non-interference. Whatever timestamps the submitted
\* orders carry, every call returns the fills, and leaves the book up to
\* the stored timestamp field, that the same orders in the same call order
\* give with all timestamps equal; so two Matchers fed the same orders with
\* different timestamps agree on every fill list and on the book up to the
\* timestamps, and call order alone decides queue priority.
C34_TimestampNonInterference ==
    pc = "idle" =>
        /\ \A i \in 1..Len(returned) :
              returned[i] = Replay(SubSeq(RetimeAll(submitted), 1, i)).fills
        /\ LET r == Replay(RetimeAll(submitted))
           IN  /\ RetimeMap(bids) = r.bids
               /\ RetimeMap(asks) = r.asks
               /\ fills = r.fills

\* The last fill went to the head of a queue whose next order carries a
\* smaller timestamp.
C34_Witness ==
    /\ Returned
    /\ fills # <<>>
    /\ \E m \in {bids, asks} : \E k \in DOMAIN m :
          /\ Len(m[k].orders) >= 2
          /\ m[k].orders[1].id = fills[Len(fills)].maker_id
          /\ m[k].orders[1].timestamp > m[k].orders[2].timestamp

----------------------------------------------------------------------------
\* The slices of the calls, one after the other.
RECURSIVE Flatten(_)
Flatten(slices) ==
    IF slices = <<>> THEN <<>> ELSE Head(slices) \o Flatten(Tail(slices))

\* Every fill made so far, those of the running call included.
History == Flatten(returned) \o (IF InCall THEN fills ELSE <<>>)

\* The quantity the fills of `h` gave the order `id`, as maker or as taker.
RECURSIVE Filled(_, _)
Filled(h, id) ==
    IF h = <<>> THEN 0
    ELSE (IF Head(h).maker_id = id \/ Head(h).taker_id = id
          THEN Head(h).quantity ELSE 0) + Filled(Tail(h), id)

\* C35: no resurrection. Each id is in the book at most once; an order
\* that the fills so far have filled completely, as maker or as taker, is
\* not in the book, and the maker of every fill was not yet completely
\* filled by the fills before it, so a filled order's id is never again a
\* maker_id.
C35_NoResurrection ==
    /\ CountOrders(bids) + CountOrders(asks) = Cardinality(RestingIds)
    /\ \A i \in 1..Len(submitted) :
          Filled(History, submitted[i].id) = submitted[i].quantity
             => submitted[i].id \notin RestingIds
    /\ \A n \in 1..Len(History) :
          Filled(SubSeq(History, 1, n - 1), History[n].maker_id)
             < submitted[Arrival(History[n].maker_id)].quantity

\* A call has made fills after an earlier call had completely filled an
\* order.
C35_Witness ==
    /\ Returned
    /\ fills # <<>>
    /\ \E i \in 1..Len(submitted) :
          Filled(Flatten(SubSeq(returned, 1, Len(returned) - 1)), submitted[i].id)
             = submitted[i].quantity

\* C36: pop_front leaves total_qty alone and is called only on a head
\* whose remaining() the fill of the same iteration brought to 0, so the
\* queue's resting quantity changes by the fill alone; remaining() and
\* `total_qty -= fill_qty` never go below 0.
C36_PopAndUnderflow ==
    /\ [](/\ \A m \in {bids, asks} : \A k \in DOMAIN m :
                /\ pop_front(m[k]).total_qty = m[k].total_qty
                /\ m[k].total_qty >= 0
          /\ \A r \in Resting(bids) \cup Resting(asks) : r.filled <= r.quantity
          /\ order.filled <= order.quantity)
    /\ [][ /\ EmitsFill =>
                LET opp   == Opposite(order, bids, asks)
                    opp2  == Opposite(order, bids', asks')
                    k     == LastFill.price
                    maker == opp[k].orders[1]
                IN  /\ LastFill.quantity <= opp[k].total_qty
                    /\ LastFill.quantity <= remaining(maker)
                    /\ LastFill.quantity <= remaining(order)
                    /\ SumRemaining(opp2[k].orders)
                          = SumRemaining(opp[k].orders) - LastFill.quantity
                    /\ Len(opp2[k].orders) < Len(opp[k].orders) =>
                          /\ opp2[k].orders = Tail(opp[k].orders)
                          /\ remaining(maker) = LastFill.quantity
                          /\ opp2[k].total_qty
                                = opp[k].total_qty - LastFill.quantity
           /\ \A m \in {<<bids, bids'>>, <<asks, asks'>>} :
                 \A k \in DOMAIN m[1] \cap DOMAIN m[2] :
                    Len(m[2][k].orders) < Len(m[1][k].orders) => EmitsFill ]_vars

\* A fill has just popped its maker and left the level with orders and
\* with quantity.
C36_Witness ==
    /\ pc = "bid_inner"
    /\ fills # <<>>
    /\ fills[Len(fills)].maker_id \notin RestingIds
    /\ ask_price \in DOMAIN asks
    /\ asks[ask_price].orders # <<>>
    /\ asks[ask_price].total_qty > 0

====
